---- MODULE Spec2Model ----
(***************************************************************************)
(* The experiment server of hogwarts_experiment (the full variant,         *)
(* src/unnamed/part_002): one Server object whose maps are guarded by one  *)
(* mutex, one Connect handler per client stream, and the operator's unary  *)
(* calls.  Every action below is one critical section of s.mu (or one      *)
(* Recv outcome of a stream), so the interleavings of the model are the    *)
(* interleavings of the goroutines.                                        *)
(***************************************************************************)
EXTENDS Integers, Sequences, FiniteSets, TLC

\* ----------------------------------------------------------------- bounds
\* Client.guesses and the leaderboard counts grow without end: capped in the guards
MaxGuesses == 2
MaxWins == 2
\* the server's messages a client stream holds before the client's Recv takes them
MaxInFlight == 2

\* ------------------------------------------------------- program constants
\* rand.Intn(100) + 1
RandN == 100

\* the client streams of a run: two, so that two connections can carry the same
\* username or two different ones
Conns == {1, 2}
Users == {"A", "B"}
\* a handshake or a SendResponse request may also carry the empty string
Names == Users \cup {""}
\* ClientMessage.Number is whatever the peer sent: the server validates nothing
GuessVals == {0, 42, 50}

StartMsg == "Experiment started! Guess a number between 1 and 100."
EndMsg == "Experiment ended!"

\* what a client's Recv can return
ServerMsgs == {StartMsg, EndMsg, "Correct!", "Higher!", "Lower!"}

\* strconv.Atoi of the line the user typed: an error, or the number
AtoiResults ==
    {[err |-> TRUE, n |-> 0]} \cup [err : {FALSE}, n : {0, 50, RandN + 1}]

\* the calls followed one by one through Server.mu: the operator's calls and the
\* processGuess of the handler of B's stream
LockCalls ==
    {"processGuess(B)", "SendResponse(A)", "SendResponse(B)", "StartExperiment",
     "EndExperiment", "Leaderboard", "WaitingList"}

ErrEmptyUsername == "username cannot be empty"
ErrRecvUsername == "error receiving username"
ErrAlreadyStarted == "experiment has already started"
ErrNoActive == "no active experiment to end"
ErrNotFound == "client not found"
ErrNoPending == "no pending response"
ErrSend == "failed to send message"

VARIABLES
    clients,            \* Server.clients: username -> Client
    targetNum,          \* Server.targetNum
    experiment,         \* Server.experiment
    leaderboard,        \* Server.leaderboard: username -> wins
    pendingResponses,   \* Server.pendingResponses: username -> guess
    conn,               \* each Connect handler: where it is, and its local username
    last,               \* the call that ran last: its name, argument, error, the Sends
                        \* it made and the list it returned (a range over a map visits
                        \* each key once in no fixed order: both are kept without order)
    graded,             \* history: usernames graded since their last stored guess
    lbAtStart,          \* history: the leaderboard when the running experiment began
                        \* (empty while none is running)
    lastCycle,          \* history: the last call that succeeded among StartExperiment
                        \* ("start", or "restart" when an end came before it) and
                        \* EndExperiment ("end"); "none" before any
    latest,             \* history: username -> the guess processGuess handled last for
                        \* it, kept while the username has a pending entry
    overwritten,        \* history: usernames whose last processed guess replaced an
                        \* ungraded entry of another value
    unanswered,         \* history: usernames whose pending entry a handler's cleanup
                        \* deleted, until their next processed guess
    pendingFrom,        \* history: username -> the stream whose handler stored the
                        \* username's pending entry
    stale,              \* history: usernames whose pending entry was stored before
                        \* the last successful StartExperiment
    cmain,              \* the client program (src/client/main.go): where main is
    clisten,            \* the client program: where the ListenForMessages goroutine is
    cinbox,             \* the client program: the messages its stream holds for Recv
    cprinted,           \* the client program: the message it printed last
    cstream,            \* the client program: its stream, "open", or "broken" once
                        \* the client's side knows that it has ended
    cguess,             \* the client program: main's local guess
    mu,                 \* Server.mu seen call by call: the call that holds it, or ""
    opc,                \* seen call by call: where each call of the server is
    sending,            \* seen call by call: the streams the holder of mu still has
                        \* to Send on
    stalled             \* the streams whose peer has stopped reading: a Send on one
                        \* of them does not return

\* the client program's variables
cvars == <<cmain, clisten, cinbox, cprinted, cstream, cguess>>

\* the variables of the call-by-call view of Server.mu
lvars == <<mu, opc, sending, stalled>>

\* the variables the server's own steps leave alone
hist == <<graded, lbAtStart, lastCycle, latest, overwritten, unanswered, pendingFrom,
         stale, cvars, lvars>>

vars == <<clients, targetNum, experiment, leaderboard, pendingResponses,
          conn, last, graded, lbAtStart, lastCycle, latest, overwritten,
          unanswered, pendingFrom, stale, cmain,
          clisten, cinbox, cprinted, cstream, cguess,
          mu, opc, sending, stalled>>

\* ------------------------------------------------------------ Go's maps
EmptyMap == [k \in {} |-> 0]

Put(m, k, v) == [x \in (DOMAIN m) \cup {k} |-> IF x = k THEN v ELSE m[x]]

Delete(m, k) == [x \in (DOMAIN m) \ {k} |-> m[x]]

\* m[k] of an int map: the zero value when k is absent
Get(m, k) == IF k \in DOMAIN m THEN m[k] ELSE 0

\* rand.Intn(n): samples of 0..n-1, both ends included
Intn(n) == {0, 41, n - 1}

Call(op, user, err, sends, usernames, entries) ==
    [op |-> op, user |-> user, err |-> err, sends |-> sends,
     usernames |-> usernames, entries |-> entries]

\* ------------------------------------------------------------------ Init
NewExperimentServer ==
    /\ clients = EmptyMap
    /\ leaderboard = EmptyMap
    /\ pendingResponses = EmptyMap
    /\ targetNum = 0
    /\ experiment = FALSE

\* The client after NewClient has returned and main has started the goroutine of
\* ListenForMessages and called WaitForStart.
NewClientStarted ==
    /\ cmain = "WaitForStart"
    /\ clisten = "Recv"
    /\ cinbox = <<>>
    /\ cprinted = ""
    /\ cstream = "open"
    /\ cguess = 0

\* Server.mu is free, no call is under way, no peer has stopped reading
NoCall ==
    /\ mu = ""
    /\ opc = [o \in LockCalls |-> "idle"]
    /\ sending = {}
    /\ stalled = {}

Init ==
    /\ NewExperimentServer
    /\ NewClientStarted
    /\ NoCall
    /\ conn = [c \in Conns |-> [pc |-> "new", username |-> ""]]
    /\ last = Call("NewExperimentServer", "", "", {}, {}, {})
    /\ graded = {}
    /\ lbAtStart = EmptyMap
    /\ lastCycle = "none"
    /\ latest = EmptyMap
    /\ overwritten = {}
    /\ unanswered = {}
    /\ pendingFrom = EmptyMap
    /\ stale = {}

\* ----------------------------------------------------- Connect (handler)
\* client := &Client{username: username, stream: stream}.  Client.lastGuess is
\* written by processGuess and read nowhere: it is left out.
NewClient(username, stream) ==
    [username |-> username, guesses |-> 0, stream |-> stream]

\* s.clients[username] = client
RegisterClient(username, stream) ==
    Put(clients, username, NewClient(username, stream))

\* Faulty variant: the earlier variant's Connect, which leaves s.leaderboard alone
RegisterLeaderboard_Skipped(username) == leaderboard

\* if _, ok := s.leaderboard[username]; !ok { s.leaderboard[username] = 0 }
RegisterLeaderboard(username) ==
    IF username \in DOMAIN leaderboard THEN leaderboard ELSE Put(leaderboard, username, 0)

\* The first Recv of the stream fails: Connect returns the error, nothing registered.
ConnectRecvError(c) ==
    /\ conn[c].pc = "new"
    /\ conn' = [conn EXCEPT ![c].pc = "returned"]
    /\ last' = Call("Connect", "", ErrRecvUsername, {}, {}, {})
    /\ UNCHANGED <<clients, targetNum, experiment, leaderboard, pendingResponses>>

\* The first message carries the username: the handshake.
Connect(c, name) ==
    /\ conn[c].pc = "new"
    /\ IF name = ""
       THEN /\ conn' = [conn EXCEPT ![c].pc = "returned"]
            /\ last' = Call("Connect", name, ErrEmptyUsername, {}, {}, {})
            /\ UNCHANGED <<clients, leaderboard>>
       ELSE /\ clients' = RegisterClient(name, c)
            /\ leaderboard' = RegisterLeaderboard(name)
            /\ conn' = [conn EXCEPT ![c] = [pc |-> "live", username |-> name]]
            /\ last' = Call("Connect", name, "", {}, {}, {})
    /\ UNCHANGED <<targetNum, experiment, pendingResponses>>

\* Faulty variant: a processGuess that does not count
CountGuess_Uncounted(username, guess) == clients

\* client.guesses++
CountGuess(username, guess) ==
    [clients EXCEPT ![username].guesses = @ + 1]

\* Faulty variant: a guess that does not replace the one already waiting
StoreGuess_KeepFirst(username, guess) ==
    IF username \in DOMAIN pendingResponses
    THEN pendingResponses
    ELSE Put(pendingResponses, username, guess)

\* s.pendingResponses[username] = guess
StoreGuess(username, guess) ==
    Put(pendingResponses, username, guess)

processGuess(username, guess) ==
    IF username \notin DOMAIN clients
    THEN UNCHANGED <<clients, pendingResponses>>
    ELSE /\ clients' = CountGuess(username, guess)
         /\ pendingResponses' = StoreGuess(username, guess)

\* The handler's loop: Recv returns a message, its Number goes to processGuess.
ConnectRecvGuess(c, guess) ==
    /\ conn[c].pc = "live"
    /\ Get([u \in DOMAIN clients |-> clients[u].guesses], conn[c].username) < MaxGuesses
    /\ processGuess(conn[c].username, guess)
    /\ last' = Call("processGuess", conn[c].username, "", {}, {}, {})
    /\ UNCHANGED <<targetNum, experiment, leaderboard, conn>>

\* The handler's loop: Recv returns an error or io.EOF, the loop breaks.
ConnectStreamEnd(c) ==
    /\ conn[c].pc = "live"
    /\ conn' = [conn EXCEPT ![c].pc = "ended"]
    /\ last' = Call("Recv", conn[c].username, "EOF", {}, {}, {})
    /\ UNCHANGED <<clients, targetNum, experiment, leaderboard, pendingResponses>>

\* what the handler removes from s.clients after the loop
ClientsAfterDisconnect(username) == clients

\* Faulty variant: the earlier variant's cleanup, which leaves s.pendingResponses alone
PendingAfterDisconnect_Kept(username) == pendingResponses

\* Faulty variant: a cleanup that empties the whole map
PendingAfterDisconnect_All(username) == EmptyMap

\* what the handler removes from s.pendingResponses after the loop
PendingAfterDisconnect(username) == Delete(pendingResponses, username)

\* After the loop: the cleanup under the lock, then Connect returns nil.
ConnectDisconnect(c) ==
    /\ conn[c].pc = "ended"
    /\ clients' = ClientsAfterDisconnect(conn[c].username)
    /\ pendingResponses' = PendingAfterDisconnect(conn[c].username)
    /\ conn' = [conn EXCEPT ![c].pc = "returned"]
    /\ last' = Call("Disconnect", conn[c].username, "", {}, {}, {})
    /\ UNCHANGED <<targetNum, experiment, leaderboard>>

\* ------------------------------------------------------ operator's calls
\* Faulty variant: a loop that returns at the first Send that fails
Broadcast_StopAtFailure(msg) ==
    {{[to |-> clients[u].stream, text |-> msg, ok |-> u # f] : u \in reached} :
     reached \in SUBSET DOMAIN clients, f \in DOMAIN clients \cup {""}} \cap
    {sends \in SUBSET [to : Conns, text : {msg}, ok : BOOLEAN] :
        (\A m \in sends : m.ok) => Cardinality(sends) = Cardinality(DOMAIN clients)}

\* for _, client := range s.clients { client.stream.Send(msg) }: one Send per
\* entry, in any order, each of which may fail; a failure is only logged.
Broadcast(msg) ==
    {{[to |-> clients[u].stream, text |-> msg, ok |-> oks[u]] : u \in DOMAIN clients} :
     oks \in [DOMAIN clients -> BOOLEAN]}

\* Faulty variant: the earlier variant's StartExperiment: s.leaderboard = make(map[string]int)
LeaderboardAfterStart_Reset == EmptyMap

\* what StartExperiment does to s.leaderboard
LeaderboardAfterStart == leaderboard

\* Faulty variant: the earlier variant's StartExperiment, which has no such check
AlreadyStarted_Unchecked == FALSE

\* if s.experiment { return nil, fmt.Errorf("experiment has already started") }
AlreadyStarted == experiment

\* Faulty variant: the draw without its + 1
TargetAfterStart_Unshifted(r) == r

\* s.targetNum = rand.Intn(100) + 1, for the draw r
TargetAfterStart(r) == r + 1

StartExperiment ==
    IF AlreadyStarted
    THEN /\ last' = Call("StartExperiment", "", ErrAlreadyStarted, {}, {}, {})
         /\ UNCHANGED <<clients, targetNum, experiment, leaderboard, pendingResponses,
                        conn>>
    ELSE \E r \in Intn(RandN), sends \in Broadcast(StartMsg) :
         /\ targetNum' = TargetAfterStart(r)
         /\ experiment' = TRUE
         /\ leaderboard' = LeaderboardAfterStart
         /\ last' = Call("StartExperiment", "", "", sends, {}, {})
         /\ UNCHANGED <<clients, pendingResponses, conn>>

\* Faulty variant: EndExperiment without the make(map[string]int32)
PendingAfterEnd_Kept == pendingResponses

\* what EndExperiment does to s.pendingResponses
PendingAfterEnd == EmptyMap

\* what EndExperiment does to s.leaderboard
LeaderboardAfterEnd == leaderboard

\* Faulty variant: EndExperiment without its check
NoActiveExperiment_Unchecked == FALSE

\* if !s.experiment { return nil, fmt.Errorf("no active experiment to end") }
NoActiveExperiment == ~experiment

\* s.targetNum = 0
TargetAfterEnd == 0

EndExperiment ==
    IF NoActiveExperiment
    THEN /\ last' = Call("EndExperiment", "", ErrNoActive, {}, {}, {})
         /\ UNCHANGED <<clients, targetNum, experiment, leaderboard, pendingResponses,
                        conn>>
    ELSE \E sends \in Broadcast(EndMsg) :
         /\ experiment' = FALSE
         /\ targetNum' = TargetAfterEnd
         /\ pendingResponses' = PendingAfterEnd
         /\ leaderboard' = LeaderboardAfterEnd
         /\ last' = Call("EndExperiment", "", "", sends, {}, {})
         /\ UNCHANGED <<clients, conn>>

\* Faulty variant: the two hints exchanged
Grade_Swapped(guess, target) ==
    IF guess = target THEN "Correct!"
    ELSE IF guess < target THEN "Lower!"
    ELSE "Higher!"

\* the message for a pending guess.  int32(s.targetNum) is exact: targetNum is
\* 0 or rand.Intn(100) + 1, far inside 32 bits.
Grade(guess, target) ==
    IF guess = target THEN "Correct!"
    ELSE IF guess < target THEN "Higher!"
    ELSE "Lower!"

\* Faulty variant: the earlier variant: s.leaderboard[req.Username] = client.guesses
LeaderboardAfterGrade_Guesses(username, message) ==
    IF message = "Correct!"
    THEN Put(leaderboard, username, clients[username].guesses)
    ELSE leaderboard

\* s.leaderboard[req.Username] += 1, in the Correct branch only
LeaderboardAfterGrade(username, message) ==
    IF message = "Correct!"
    THEN Put(leaderboard, username, Get(leaderboard, username) + 1)
    ELSE leaderboard

\* Faulty variant: the earlier variant: the delete inside the Correct branch
PendingAfterGrade_CorrectOnly(username, message) ==
    IF message = "Correct!" THEN Delete(pendingResponses, username) ELSE pendingResponses

\* delete(s.pendingResponses, req.Username), after the branches
PendingAfterGrade(username, message) == Delete(pendingResponses, username)

\* the stream the outcome is sent on
ResponseStream(username) == clients[username].stream

SendResponse(username) ==
    IF username \notin DOMAIN clients
    THEN /\ last' = Call("SendResponse", username, ErrNotFound, {}, {}, {})
         /\ UNCHANGED <<clients, targetNum, experiment, leaderboard, pendingResponses,
                        conn>>
    ELSE IF username \notin DOMAIN pendingResponses
    THEN /\ last' = Call("SendResponse", username, ErrNoPending, {}, {}, {})
         /\ UNCHANGED <<clients, targetNum, experiment, leaderboard, pendingResponses,
                        conn>>
    ELSE \E ok \in BOOLEAN :
         LET message == Grade(pendingResponses[username], targetNum) IN
         /\ message = "Correct!" => Get(leaderboard, username) < MaxWins
         /\ leaderboard' = LeaderboardAfterGrade(username, message)
         /\ pendingResponses' = PendingAfterGrade(username, message)
         /\ last' = Call("SendResponse", username, IF ok THEN "" ELSE ErrSend,
                         {[to |-> ResponseStream(username), text |-> message, ok |-> ok]},
                         {}, {})
         /\ UNCHANGED <<clients, targetNum, experiment, conn>>

\* for username, wins := range s.leaderboard: one entry per key, in any order
LeaderboardEntries ==
    {[username |-> u, wins |-> leaderboard[u]] : u \in DOMAIN leaderboard}

Leaderboard ==
    /\ last' = Call("Leaderboard", "", "", {}, {}, LeaderboardEntries)
    /\ UNCHANGED <<clients, targetNum, experiment, leaderboard, pendingResponses,
                   conn>>

\* for username := range s.pendingResponses: one name per key, in any order
WaitingUsernames == DOMAIN pendingResponses

WaitingList ==
    /\ last' = Call("WaitingList", "", "", {}, WaitingUsernames, {})
    /\ UNCHANGED <<clients, targetNum, experiment, leaderboard, pendingResponses,
                   conn>>

\* ------------------------------------------------------------ the server
\* The steps of the program: the handlers' and the operator's critical sections,
\* in any interleaving the mutex allows.  The history variables stay as they are.
Next ==
    \/ \E c \in Conns : ConnectRecvError(c) /\ UNCHANGED hist
    \/ \E c \in Conns, name \in Names : Connect(c, name) /\ UNCHANGED hist
    \/ \E c \in Conns, guess \in GuessVals : ConnectRecvGuess(c, guess) /\ UNCHANGED hist
    \/ \E c \in Conns : ConnectStreamEnd(c) /\ UNCHANGED hist
    \/ \E c \in Conns : ConnectDisconnect(c) /\ UNCHANGED hist
    \/ StartExperiment /\ UNCHANGED hist
    \/ EndExperiment /\ UNCHANGED hist
    \/ \E username \in Names : SendResponse(username) /\ UNCHANGED hist
    \/ Leaderboard /\ UNCHANGED hist
    \/ WaitingList /\ UNCHANGED hist

Spec == Init /\ [][Next]_vars

\* --------------------------------------------------------------- history
\* SendResponse(u) reaches its grading when u is registered and has a pending guess.
FoundPending(u) == u \in DOMAIN clients /\ u \in DOMAIN pendingResponses

\* graded: u enters when a SendResponse(u) grades, leaves at the next processGuess of u
HistGraded ==
    /\ graded' = IF last'.op = "SendResponse" /\ FoundPending(last'.user)
                 THEN graded \cup {last'.user}
                 ELSE IF last'.op = "processGuess"
                 THEN graded \ {last'.user}
                 ELSE graded
    /\ UNCHANGED <<lbAtStart, lastCycle, latest, overwritten, unanswered, pendingFrom,
                   stale, cvars, lvars>>

NextGraded ==
    \/ \E c \in Conns : ConnectRecvError(c) /\ HistGraded
    \/ \E c \in Conns, name \in Names : Connect(c, name) /\ HistGraded
    \/ \E c \in Conns, guess \in GuessVals : ConnectRecvGuess(c, guess) /\ HistGraded
    \/ \E c \in Conns : ConnectStreamEnd(c) /\ HistGraded
    \/ \E c \in Conns : ConnectDisconnect(c) /\ HistGraded
    \/ StartExperiment /\ HistGraded
    \/ EndExperiment /\ HistGraded
    \/ \E username \in Names : SendResponse(username) /\ HistGraded
    \/ Leaderboard /\ HistGraded
    \/ WaitingList /\ HistGraded

SpecGraded == Init /\ [][NextGraded]_vars

\* lbAtStart: the leaderboard as a successful StartExperiment leaves it, emptied by
\* the successful EndExperiment
HistRound ==
    /\ lbAtStart' = IF last'.op = "StartExperiment" /\ last'.err = ""
                    THEN leaderboard'
                    ELSE IF last'.op = "EndExperiment" /\ last'.err = ""
                    THEN EmptyMap
                    ELSE lbAtStart
    /\ UNCHANGED <<graded, lastCycle, latest, overwritten, unanswered, pendingFrom,
                   stale, cvars, lvars>>

NextRound ==
    \/ \E c \in Conns : ConnectRecvError(c) /\ HistRound
    \/ \E c \in Conns, name \in Names : Connect(c, name) /\ HistRound
    \/ \E c \in Conns, guess \in GuessVals : ConnectRecvGuess(c, guess) /\ HistRound
    \/ \E c \in Conns : ConnectStreamEnd(c) /\ HistRound
    \/ \E c \in Conns : ConnectDisconnect(c) /\ HistRound
    \/ StartExperiment /\ HistRound
    \/ EndExperiment /\ HistRound
    \/ \E username \in Names : SendResponse(username) /\ HistRound
    \/ Leaderboard /\ HistRound
    \/ WaitingList /\ HistRound

SpecRound == Init /\ [][NextRound]_vars

\* lastCycle: follows the successful StartExperiment and EndExperiment calls
HistCycle ==
    /\ lastCycle' = IF last'.op = "StartExperiment" /\ last'.err = ""
                    THEN (IF lastCycle = "none" THEN "start" ELSE "restart")
                    ELSE IF last'.op = "EndExperiment" /\ last'.err = ""
                    THEN "end"
                    ELSE lastCycle
    /\ UNCHANGED <<graded, lbAtStart, latest, overwritten, unanswered, pendingFrom,
                   stale, cvars, lvars>>

NextCycle ==
    \/ \E c \in Conns : ConnectRecvError(c) /\ HistCycle
    \/ \E c \in Conns, name \in Names : Connect(c, name) /\ HistCycle
    \/ \E c \in Conns, guess \in GuessVals : ConnectRecvGuess(c, guess) /\ HistCycle
    \/ \E c \in Conns : ConnectStreamEnd(c) /\ HistCycle
    \/ \E c \in Conns : ConnectDisconnect(c) /\ HistCycle
    \/ StartExperiment /\ HistCycle
    \/ EndExperiment /\ HistCycle
    \/ \E username \in Names : SendResponse(username) /\ HistCycle
    \/ Leaderboard /\ HistCycle
    \/ WaitingList /\ HistCycle

SpecCycle == Init /\ [][NextCycle]_vars

\* latest and overwritten at a step other than processGuess: a username that
\* loses its pending entry loses its latest guess
HistLatest ==
    /\ latest' = [u \in DOMAIN latest \cap DOMAIN pendingResponses' |-> latest[u]]
    /\ overwritten' = overwritten
    /\ UNCHANGED <<graded, lbAtStart, lastCycle, unanswered, pendingFrom,
                   stale, cvars, lvars>>

\* latest and overwritten when processGuess(username, guess) has run
HistLatestGuess(username, guess) ==
    /\ latest' = Put([u \in DOMAIN latest \cap DOMAIN pendingResponses' |-> latest[u]],
                     username, guess)
    /\ overwritten' = IF /\ username \in DOMAIN pendingResponses
                         /\ pendingResponses[username] # guess
                      THEN overwritten \cup {username}
                      ELSE overwritten \ {username}
    /\ UNCHANGED <<graded, lbAtStart, lastCycle, unanswered, pendingFrom,
                   stale, cvars, lvars>>

NextLatest ==
    \/ \E c \in Conns : ConnectRecvError(c) /\ HistLatest
    \/ \E c \in Conns, name \in Names : Connect(c, name) /\ HistLatest
    \/ \E c \in Conns, guess \in GuessVals :
          ConnectRecvGuess(c, guess) /\ HistLatestGuess(conn[c].username, guess)
    \/ \E c \in Conns : ConnectStreamEnd(c) /\ HistLatest
    \/ \E c \in Conns : ConnectDisconnect(c) /\ HistLatest
    \/ StartExperiment /\ HistLatest
    \/ EndExperiment /\ HistLatest
    \/ \E username \in Names : SendResponse(username) /\ HistLatest
    \/ Leaderboard /\ HistLatest
    \/ WaitingList /\ HistLatest

SpecLatest == Init /\ [][NextLatest]_vars

\* unanswered: u enters when a handler's cleanup deletes u's pending entry, leaves
\* at the next processGuess of u
HistUnanswered ==
    /\ unanswered' = IF last'.op = "Disconnect" /\ last'.user \in DOMAIN pendingResponses
                     THEN unanswered \cup {last'.user}
                     ELSE IF last'.op = "processGuess"
                     THEN unanswered \ {last'.user}
                     ELSE unanswered
    /\ UNCHANGED <<graded, lbAtStart, lastCycle, latest, overwritten, pendingFrom, stale,
                   cvars, lvars>>

NextUnanswered ==
    \/ \E c \in Conns : ConnectRecvError(c) /\ HistUnanswered
    \/ \E c \in Conns, name \in Names : Connect(c, name) /\ HistUnanswered
    \/ \E c \in Conns, guess \in GuessVals : ConnectRecvGuess(c, guess) /\ HistUnanswered
    \/ \E c \in Conns : ConnectStreamEnd(c) /\ HistUnanswered
    \/ \E c \in Conns : ConnectDisconnect(c) /\ HistUnanswered
    \/ StartExperiment /\ HistUnanswered
    \/ EndExperiment /\ HistUnanswered
    \/ \E username \in Names : SendResponse(username) /\ HistUnanswered
    \/ Leaderboard /\ HistUnanswered
    \/ WaitingList /\ HistUnanswered

SpecUnanswered == Init /\ [][NextUnanswered]_vars

\* pendingFrom at a step other than processGuess: a username that loses its
\* pending entry loses its stream
HistFrom ==
    /\ pendingFrom' = [u \in DOMAIN pendingFrom \cap DOMAIN pendingResponses' |->
                           pendingFrom[u]]
    /\ UNCHANGED <<graded, lbAtStart, lastCycle, latest, overwritten, unanswered, stale,
                   cvars, lvars>>

\* pendingFrom when the handler of stream c has run processGuess
HistFromGuess(c) ==
    /\ pendingFrom' = Put([u \in DOMAIN pendingFrom \cap DOMAIN pendingResponses' |->
                               pendingFrom[u]],
                          conn[c].username, c)
    /\ UNCHANGED <<graded, lbAtStart, lastCycle, latest, overwritten, unanswered, stale,
                   cvars, lvars>>

NextFrom ==
    \/ \E c \in Conns : ConnectRecvError(c) /\ HistFrom
    \/ \E c \in Conns, name \in Names : Connect(c, name) /\ HistFrom
    \/ \E c \in Conns, guess \in GuessVals : ConnectRecvGuess(c, guess) /\ HistFromGuess(c)
    \/ \E c \in Conns : ConnectStreamEnd(c) /\ HistFrom
    \/ \E c \in Conns : ConnectDisconnect(c) /\ HistFrom
    \/ StartExperiment /\ HistFrom
    \/ EndExperiment /\ HistFrom
    \/ \E username \in Names : SendResponse(username) /\ HistFrom
    \/ Leaderboard /\ HistFrom
    \/ WaitingList /\ HistFrom

SpecFrom == Init /\ [][NextFrom]_vars

\* stale: at a successful StartExperiment every username with a pending entry
\* enters; u leaves at the next processGuess of u and when its entry is removed
HistStale ==
    /\ stale' = IF last'.op = "StartExperiment" /\ last'.err = ""
                THEN DOMAIN pendingResponses'
                ELSE IF last'.op = "processGuess"
                THEN (stale \ {last'.user}) \cap DOMAIN pendingResponses'
                ELSE stale \cap DOMAIN pendingResponses'
    /\ UNCHANGED <<graded, lbAtStart, lastCycle, latest, overwritten, unanswered,
                   pendingFrom, cvars, lvars>>

NextStale ==
    \/ \E c \in Conns : ConnectRecvError(c) /\ HistStale
    \/ \E c \in Conns, name \in Names : Connect(c, name) /\ HistStale
    \/ \E c \in Conns, guess \in GuessVals : ConnectRecvGuess(c, guess) /\ HistStale
    \/ \E c \in Conns : ConnectStreamEnd(c) /\ HistStale
    \/ \E c \in Conns : ConnectDisconnect(c) /\ HistStale
    \/ StartExperiment /\ HistStale
    \/ EndExperiment /\ HistStale
    \/ \E username \in Names : SendResponse(username) /\ HistStale
    \/ Leaderboard /\ HistStale
    \/ WaitingList /\ HistStale

SpecStale == Init /\ [][NextStale]_vars

\* ------------------------------------------- the client (src/client/main.go)
\* One client program: main, the goroutine of ListenForMessages, and its stream.
\* The server is its environment: it may send any of its messages, and the stream
\* may break.
serverSide == <<clients, targetNum, experiment, leaderboard, pendingResponses, conn,
                last, graded, lbAtStart, lastCycle, latest, overwritten, unanswered,
                pendingFrom, stale, lvars>>

\* strings.Contains(serverMsg.Message, "Experiment started"): of the server's
\* messages only the start announcement contains it
IsStartAnnouncement(msg) == msg = StartMsg

\* err != nil || guess < 1 || guess > 100
InvalidInput(a) == a.err \/ a.n < 1 \/ a.n > RandN

\* environment: the server sends msg on the stream
ServerSends(msg) ==
    /\ cmain # "exited"
    /\ cstream = "open"
    /\ Len(cinbox) < MaxInFlight
    /\ cinbox' = Append(cinbox, msg)
    /\ UNCHANGED <<cmain, clisten, cprinted, cstream, cguess>>

\* environment: the stream ends or the connection is lost, and the client's
\* side learns it
StreamBreaks ==
    /\ cmain # "exited"
    /\ cstream = "open"
    /\ cstream' = "broken"
    /\ UNCHANGED <<cmain, clisten, cinbox, cprinted, cguess>>

\* environment: SIGINT or SIGTERM; the signal goroutine closes the client and
\* calls os.Exit(0)
Interrupt ==
    /\ cmain # "exited"
    /\ cmain' = "exited"
    /\ UNCHANGED <<clisten, cinbox, cprinted, cstream, cguess>>

\* ListenForMessages: Recv returns a message; it is printed, then offered on
\* c.start (a start announcement) or on c.msg (anything else)
ListenForMessagesRecv ==
    /\ cmain # "exited"
    /\ clisten = "Recv"
    /\ cinbox # <<>>
    /\ cprinted' = Head(cinbox)
    /\ cinbox' = Tail(cinbox)
    /\ clisten' = IF IsStartAnnouncement(Head(cinbox)) THEN "c.start <-" ELSE "c.msg <-"
    /\ UNCHANGED <<cmain, cstream, cguess>>

\* ListenForMessages: Recv returns an error; the loop breaks, the goroutine ends
ListenForMessagesRecvError ==
    /\ cmain # "exited"
    /\ clisten = "Recv"
    /\ cstream = "broken"
    /\ clisten' = "returned"
    /\ UNCHANGED <<cmain, cinbox, cprinted, cstream, cguess>>

\* c.start is unbuffered: ListenForMessages' send and WaitForStart's receive
\* happen together.  (c.msg is unbuffered too, and its only receive,
\* WaitForMessage, has no caller: a goroutine at "c.msg <-" has no step.)
WaitForStart ==
    /\ cmain = "WaitForStart"
    /\ clisten = "c.start <-"
    /\ cmain' = "ReadString"
    /\ clisten' = "Recv"
    /\ UNCHANGED <<cinbox, cprinted, cstream, cguess>>

\* main's loop: the user answers the prompt with a line; an invalid one is
\* refused and the prompt repeats
mainReadGuess(a) ==
    /\ cmain = "ReadString"
    /\ IF InvalidInput(a)
       THEN UNCHANGED <<cmain, cguess>>
       ELSE cmain' = "SendGuess" /\ cguess' = a.n
    /\ UNCHANGED <<clisten, cinbox, cprinted, cstream>>

\* SendGuess: c.stream.Send, which fails once the client's side knows that the
\* stream is broken
SendGuess == IF cstream = "open" THEN "nil" ELSE "EOF"

\* main's loop: err = client.SendGuess(...); if err != nil { break }: main returns
\* and the program ends; otherwise it prints "Waiting for response..." and
\* prompts again
mainSendGuess ==
    /\ cmain = "SendGuess"
    /\ cmain' = IF SendGuess # "nil" THEN "exited" ELSE "ReadString"
    /\ cguess' = 0
    /\ UNCHANGED <<clisten, cinbox, cprinted, cstream>>

\* the steps of the goroutine of ListenForMessages
ListenForMessages ==
    \/ ListenForMessagesRecv
    \/ ListenForMessagesRecvError
    \/ WaitForStart

\* the steps of main, with a user who answers every prompt
main ==
    \/ WaitForStart
    \/ \E a \in AtoiResults : mainReadGuess(a)
    \/ mainSendGuess

NextClient ==
    \/ \E msg \in ServerMsgs : ServerSends(msg) /\ UNCHANGED serverSide
    \/ StreamBreaks /\ UNCHANGED serverSide
    \/ Interrupt /\ UNCHANGED serverSide
    \/ ListenForMessagesRecv /\ UNCHANGED serverSide
    \/ ListenForMessagesRecvError /\ UNCHANGED serverSide
    \/ WaitForStart /\ UNCHANGED serverSide
    \/ \E a \in AtoiResults : mainReadGuess(a) /\ UNCHANGED serverSide
    \/ mainSendGuess /\ UNCHANGED serverSide

\* Both goroutines are scheduled whenever they can take a step, and the user
\* answers every prompt; the server and the signals are free.
SpecClient ==
    /\ Init
    /\ [][NextClient]_vars
    /\ WF_vars(ListenForMessages /\ UNCHANGED serverSide)
    /\ WF_vars(main /\ UNCHANGED serverSide)

\* ------------------------------------------- Server.mu, call by call
\* The same calls with their critical sections opened up: a call waits in
\* s.mu.Lock(), holds s.mu, makes its Sends while holding it (every Unlock of a
\* sending call is deferred) and returns.  What a call does to the maps is in the
\* actions above; here only which Sends it makes is kept, as a choice: none (an
\* error return, an empty registry) or the Sends of its loop.
lockRest == <<clients, targetNum, experiment, leaderboard, pendingResponses, conn,
              last, graded, lbAtStart, lastCycle, latest, overwritten, unanswered,
              pendingFrom, stale, cvars>>

\* client.stream of the registered client: A handshook on stream 1, B on stream 2
StreamOf(username) == IF username = "A" THEN 1 ELSE 2

\* the sets of streams a call can have to Send on
SendTargets(o) ==
    IF o = "SendResponse(A)" THEN {{}, {StreamOf("A")}}
    ELSE IF o = "SendResponse(B)" THEN {{}, {StreamOf("B")}}
    ELSE IF o \in {"StartExperiment", "EndExperiment"} THEN SUBSET Conns
    ELSE {{}}

\* a request arrives: its goroutine reaches s.mu.Lock()
CallArrives(o) ==
    /\ opc[o] = "idle"
    /\ opc' = [opc EXCEPT ![o] = "Lock"]
    /\ UNCHANGED <<mu, sending, stalled>>

\* s.mu.Lock() returns
Lock(o) ==
    /\ opc[o] = "Lock"
    /\ mu = ""
    /\ mu' = o
    /\ opc' = [opc EXCEPT ![o] = "held"]
    /\ UNCHANGED <<sending, stalled>>

\* the critical section up to the first Send, or up to the return (and the
\* deferred s.mu.Unlock()) of a call that sends nothing
CriticalSection(o) ==
    /\ opc[o] = "held"
    /\ \E targets \in SendTargets(o) :
          IF targets = {}
          THEN /\ mu' = ""
               /\ opc' = [opc EXCEPT ![o] = "idle"]
               /\ sending' = {}
          ELSE /\ mu' = mu
               /\ opc' = [opc EXCEPT ![o] = "Send"]
               /\ sending' = targets
    /\ UNCHANGED stalled

\* client.stream.Send returns (with or without an error), which it does not on a
\* stalled stream; after the last Send the call returns and s.mu.Unlock() runs
StreamSend(o, c) ==
    /\ opc[o] = "Send"
    /\ c \in sending
    /\ c \notin stalled
    /\ sending' = sending \ {c}
    /\ IF sending' = {}
       THEN mu' = "" /\ opc' = [opc EXCEPT ![o] = "idle"]
       ELSE UNCHANGED <<mu, opc>>
    /\ UNCHANGED stalled

\* environment: the peer of stream c stops reading; one stalled peer at most
PeerStalls(c) ==
    /\ stalled = {}
    /\ stalled' = {c}
    /\ UNCHANGED <<mu, opc, sending>>

NextLock ==
    \/ \E o \in LockCalls : CallArrives(o) /\ UNCHANGED lockRest
    \/ \E o \in LockCalls : Lock(o) /\ UNCHANGED lockRest
    \/ \E o \in LockCalls : CriticalSection(o) /\ UNCHANGED lockRest
    \/ \E o \in LockCalls, c \in Conns : StreamSend(o, c) /\ UNCHANGED lockRest
    \/ \E c \in Conns : PeerStalls(c) /\ UNCHANGED lockRest

\* Every goroutine that can run does; sync.Mutex hands the lock to a goroutine
\* that keeps waiting (its starvation mode), so a call that finds s.mu free again
\* and again gets it.  Requests and stalls are free.
SpecLock ==
    /\ Init
    /\ [][NextLock]_vars
    /\ \A o \in LockCalls : SF_vars(Lock(o) /\ UNCHANGED lockRest)
    /\ \A o \in LockCalls : WF_vars(CriticalSection(o) /\ UNCHANGED lockRest)
    /\ \A o \in LockCalls : WF_vars((\E c \in Conns : StreamSend(o, c)) /\ UNCHANGED lockRest)

\* ---------------------------------------------------------------- claims
Outcomes == {"Correct!", "Higher!", "Lower!"}

\* C1: a guess that processGuess handles while no experiment is running is
\* rejected: pendingResponses does not change and no client's guess counter does.
C1_GuessRejectedWhenNotRunning ==
    [][(last'.op = "processGuess" /\ ~experiment)
        => (pendingResponses' = pendingResponses /\ clients' = clients)]_vars

\* C2: while experiment = false, SendResponse for any username returns an error,
\* sends no message and leaves the leaderboard as it was.
C2_NoGradingWhenNotRunning ==
    [][(last'.op = "SendResponse" /\ ~experiment)
        => (last'.err # "" /\ last'.sends = {} /\ leaderboard' = leaderboard)]_vars

\* C3: a Connect handshake with a username already in clients fails, and the
\* registration that was there (its stream, its guess counter) stays as it was.
C3_DuplicateConnectRejected ==
    [][(last'.op = "Connect" /\ last'.user \in DOMAIN clients)
        => (last'.err # "" /\ clients' = clients)]_vars

\* C4: once a Connect handler that completed its handshake has returned, and no
\* other connection registered the same username, the username is not in clients.
C4_DisconnectedAbsent ==
    \A c \in Conns :
        (/\ conn[c].pc = "returned"
         /\ conn[c].username # ""
         /\ \A d \in Conns \ {c} : conn[d].username # conn[c].username)
        => conn[c].username \notin DOMAIN clients

\* C5: a SendResponse(u) that finds a pending guess removes u's pending entry
\* whatever the outcome, and a further SendResponse(u) with no processGuess of u
\* in between fails with "no pending response".
C5_GradeConsumesPending ==
    [][/\ (last'.op = "SendResponse" /\ FoundPending(last'.user))
            => last'.user \notin DOMAIN pendingResponses'
       /\ (last'.op = "SendResponse" /\ last'.user \in graded)
            => last'.err = ErrNoPending]_vars

\* C5 happens: a second SendResponse of a username whose guess was graded Higher
\* or Lower (it never won) was refused.
C5_Witness ==
    /\ last.op = "SendResponse"
    /\ last.err = ErrNoPending
    /\ last.user \in graded
    /\ leaderboard[last.user] = 0

\* C6: a successful SendResponse(u) sends exactly one message, on the stream
\* registered for u, whose text is Correct! iff guess = target, Higher! iff
\* guess < target, Lower! iff guess > target.
C6_OneOutcomeMessage ==
    [][(last'.op = "SendResponse" /\ last'.err = "")
        => /\ FoundPending(last'.user)
           /\ \E m \in last'.sends :
                /\ last'.sends = {m}
                /\ m.ok
                /\ m.to = clients[last'.user].stream
                /\ m.text \in Outcomes
                /\ m.text = "Correct!" <=> pendingResponses[last'.user] = targetNum
                /\ m.text = "Higher!" <=> pendingResponses[last'.user] < targetNum
                /\ m.text = "Lower!" <=> pendingResponses[last'.user] > targetNum]_vars

\* C6 happens: with target 42 a guess was answered Correct! and the username's
\* count is 1.
C6_Witness ==
    /\ last.op = "SendResponse"
    /\ last.err = ""
    /\ targetNum = 42
    /\ \E m \in last.sends : m.text = "Correct!"
    /\ leaderboard[last.user] = 1

\* C7: a SendResponse(u) whose pending guess equals the target raises
\* leaderboard[u] by exactly 1 and changes no other count; one whose outcome is
\* Higher or Lower leaves the leaderboard unchanged.
C7_LeaderboardGrading ==
    [][(last'.op = "SendResponse" /\ FoundPending(last'.user))
        => IF pendingResponses[last'.user] = targetNum
           THEN /\ DOMAIN leaderboard' = DOMAIN leaderboard \cup {last'.user}
                /\ leaderboard'[last'.user] = Get(leaderboard, last'.user) + 1
                /\ \A v \in DOMAIN leaderboard \ {last'.user} :
                        leaderboard'[v] = leaderboard[v]
           ELSE leaderboard' = leaderboard]_vars

\* C7 happens: a Correct! grading took a count from 1 to 2 beside another
\* username's count.
C7_Witness ==
    /\ last.op = "SendResponse"
    /\ \E m \in last.sends : m.text = "Correct!"
    /\ leaderboard[last.user] = 2
    /\ \E v \in DOMAIN leaderboard : v # last.user /\ leaderboard[v] = 1

\* C8: no step deletes a leaderboard entry or lowers a count.
C8_LeaderboardMonotone ==
    [][\A u \in DOMAIN leaderboard :
          u \in DOMAIN leaderboard' /\ leaderboard'[u] >= leaderboard[u]]_vars

\* C8 happens: a second experiment was started while a username that won before,
\* whose first connection has returned and which reconnected, still has its count.
C8_Witness ==
    /\ last.op = "StartExperiment"
    /\ last.err = ""
    /\ \E u \in DOMAIN leaderboard, c, d \in Conns :
          /\ leaderboard[u] >= 1
          /\ conn[c] = [pc |-> "returned", username |-> u]
          /\ conn[d] = [pc |-> "live", username |-> u]

\* C9: between a successful StartExperiment and the following EndExperiment a
\* username's count rises by at most 1.
C9_AtMostOneWinPerExperiment ==
    experiment =>
        \A u \in DOMAIN leaderboard : leaderboard[u] - Get(lbAtStart, u) <= 1

\* C10: a successful EndExperiment empties pendingResponses, sets experiment to
\* false and leaves the leaderboard unchanged; a WaitingList called right after it
\* returns no usernames.
C10_EndClearsPending ==
    [][/\ (last'.op = "EndExperiment" /\ last'.err = "")
            => /\ DOMAIN pendingResponses' = {}
               /\ experiment' = FALSE
               /\ leaderboard' = leaderboard
       /\ (last.op = "EndExperiment" /\ last.err = "" /\ last'.op = "WaitingList")
            => last'.usernames = {}]_vars

\* C10 happens: EndExperiment succeeded when a username had a stored guess that
\* nothing else could have removed (never graded since, no connection of that
\* name ended), and a winner's count is still there.
C10_Witness ==
    /\ last.op = "EndExperiment"
    /\ last.err = ""
    /\ \E u \in DOMAIN clients :
          /\ clients[u].guesses >= 1
          /\ u \notin graded
          /\ \A c \in Conns : conn[c].username = u => conn[c].pc = "live"
    /\ \E v \in DOMAIN leaderboard : leaderboard[v] >= 1

\* C11: StartExperiment called while an experiment is running returns an error
\* and changes nothing: targetNum, experiment, pendingResponses and leaderboard
\* are as before and no start announcement is sent.
C11_StartWhileRunningRejected ==
    [][(last'.op = "StartExperiment" /\ experiment)
        => /\ last'.err # ""
           /\ last'.sends = {}
           /\ targetNum' = targetNum
           /\ experiment' = experiment
           /\ pendingResponses' = pendingResponses
           /\ leaderboard' = leaderboard]_vars

\* C11 happens: a StartExperiment was refused while clients were registered and a
\* guess was pending.
C11_Witness ==
    /\ last.op = "StartExperiment"
    /\ last.err = ErrAlreadyStarted
    /\ experiment
    /\ DOMAIN pendingResponses # {}

\* C12: EndExperiment called while no experiment is running returns an error and
\* changes nothing: pendingResponses, leaderboard, targetNum and experiment are as
\* before and no end notification is sent.
C12_EndWhileNotRunningRejected ==
    [][(last'.op = "EndExperiment" /\ ~experiment)
        => /\ last'.err # ""
           /\ last'.sends = {}
           /\ targetNum' = targetNum
           /\ experiment' = experiment
           /\ pendingResponses' = pendingResponses
           /\ leaderboard' = leaderboard]_vars

\* C12 happens: an EndExperiment was refused while clients were registered, one of
\* them with a count from an earlier experiment.
C12_Witness ==
    /\ last.op = "EndExperiment"
    /\ last.err = ErrNoActive
    /\ ~experiment
    /\ \E u \in DOMAIN clients : leaderboard[u] >= 1

\* C13: StartExperiment succeeds exactly when no experiment is running and
\* EndExperiment exactly when one is; so the successful starts and ends alternate,
\* a start first, and after a successful end (as before any start) no experiment
\* is running, which is when the next start succeeds.
C13_StartEndAlternate ==
    [][/\ last'.op = "StartExperiment" => (last'.err = "" <=> ~experiment)
       /\ last'.op = "EndExperiment" => (last'.err = "" <=> experiment)
       /\ (last'.op = "StartExperiment" /\ last'.err = "")
            => (lastCycle \in {"none", "end"} /\ experiment')
       /\ (last'.op = "EndExperiment" /\ last'.err = "")
            => (lastCycle \in {"start", "restart"} /\ ~experiment')
       /\ experiment' <=> lastCycle' \in {"start", "restart"}]_vars

\* C13 happens: a StartExperiment succeeded after a successful EndExperiment.
C13_Witness ==
    /\ last.op = "StartExperiment"
    /\ last.err = ""
    /\ lastCycle = "restart"
    /\ experiment

\* C14: in every state, targetNum is between 1 and 100 while an experiment is
\* running, and 0 while none is.
C14_TargetNumRange ==
    /\ experiment => targetNum \in 1..RandN
    /\ ~experiment => targetNum = 0

\* C14 happens: an experiment is running with the largest target a draw can give.
C14_Witness ==
    /\ experiment
    /\ targetNum = RandN
    /\ last.op = "StartExperiment"

\* C15: the pending entry of a username is, after every step, the guess
\* processGuess handled last for that username; and when SendResponse grades the
\* username, the outcome it sends is the comparison of that last guess with
\* targetNum, so a guess that was replaced before being graded is never graded.
C15_LatestGuessGraded ==
    [][/\ \A u \in DOMAIN pendingResponses' :
            u \in DOMAIN latest' /\ pendingResponses'[u] = latest'[u]
       /\ (last'.op = "SendResponse" /\ FoundPending(last'.user))
            => /\ last'.user \in DOMAIN latest
               /\ \A m \in last'.sends :
                    /\ m.text = "Correct!" <=> latest[last'.user] = targetNum
                    /\ m.text = "Higher!" <=> latest[last'.user] < targetNum
                    /\ m.text = "Lower!" <=> latest[last'.user] > targetNum
               /\ last'.sends # {}]_vars

\* C15 happens: the last guess of a username replaced an ungraded guess of another
\* value, and SendResponse has graded it as the target: the replaced guess, not
\* being the target, would have been told otherwise.
C15_Witness ==
    /\ last.op = "SendResponse"
    /\ last.user \in overwritten
    /\ experiment
    /\ \E m \in last.sends : m.text = "Correct!"

\* the streams use distinct usernames
DistinctUsernames ==
    \A c, d \in Conns : (c # d /\ conn[c].username # "") => conn[c].username # conn[d].username

\* C16: among clients with distinct usernames, the cleanup of A's handler removes
\* A's pending entry and nothing else: every other username's pending entry and
\* registry entry, the leaderboard, targetNum and the experiment flag are what
\* they were, so a later SendResponse for B grades B's guess as without the
\* disconnection; and once A's handler has returned A has no pending entry, and
\* WaitingList returns the usernames that have one.
C16_DisconnectRemovesOnlyOwnPending ==
    [][/\ last'.op = "Disconnect"
            => /\ last'.user \notin DOMAIN pendingResponses'
               /\ DOMAIN pendingResponses' = DOMAIN pendingResponses \ {last'.user}
               /\ \A u \in DOMAIN pendingResponses' :
                    pendingResponses'[u] = pendingResponses[u]
               /\ \A u \in DOMAIN clients \ {last'.user} :
                    u \in DOMAIN clients' /\ clients'[u] = clients[u]
               /\ leaderboard' = leaderboard
               /\ targetNum' = targetNum
               /\ experiment' = experiment
       /\ DistinctUsernames'
            => \A c \in Conns : conn'[c].pc = "returned"
                                    => conn'[c].username \notin DOMAIN pendingResponses'
       /\ last'.op = "WaitingList" => last'.usernames = DOMAIN pendingResponses]_vars

\* C16 happens: A's handler has returned and its cleanup deleted A's ungraded
\* guess, while B, on the other stream, still has its guess pending.
C16_Witness ==
    /\ last.op = "Disconnect"
    /\ last.user = "A"
    /\ "A" \in unanswered
    /\ DistinctUsernames
    /\ "B" \in DOMAIN pendingResponses
    /\ experiment

\* C17: a StartExperiment called while no experiment is running returns no error
\* and leaves the experiment running whatever the Sends do, and it has sent the
\* start announcement exactly once on the stream of every registered client, the
\* failed Sends included.
C17_StartAnnouncesToEveryClient ==
    [][(last'.op = "StartExperiment" /\ ~experiment)
        => /\ last'.err = ""
           /\ experiment'
           /\ {m.to : m \in last'.sends} = {clients[u].stream : u \in DOMAIN clients}
           /\ \A m \in last'.sends : m.text = StartMsg
           /\ Cardinality(last'.sends) = Cardinality(DOMAIN clients)]_vars

\* C17 happens: a StartExperiment has succeeded with two clients registered, the
\* Send to one of them failed and the Send to the other was still made.
C17_Witness ==
    /\ last.op = "StartExperiment"
    /\ last.err = ""
    /\ experiment
    /\ Cardinality(DOMAIN clients) = Cardinality(Users)
    /\ \E m \in last.sends : ~m.ok
    /\ \E m \in last.sends : m.ok

\* C18: a Connect handshake that registers username u gives u the leaderboard
\* count 0 when u had no entry and leaves the leaderboard as it was when u had
\* one; after every step every registered username has a leaderboard entry, and
\* Leaderboard returns an entry for every registered username.
C18_ConnectInitialisesLeaderboard ==
    [][/\ (last'.op = "Connect" /\ last'.err = "")
            => /\ last'.user \notin DOMAIN leaderboard
                    => /\ DOMAIN leaderboard' = DOMAIN leaderboard \cup {last'.user}
                       /\ leaderboard'[last'.user] = 0
                       /\ \A u \in DOMAIN leaderboard : leaderboard'[u] = leaderboard[u]
               /\ last'.user \in DOMAIN leaderboard => leaderboard' = leaderboard
       /\ DOMAIN clients' \subseteq DOMAIN leaderboard'
       /\ last'.op = "Leaderboard"
            => \A u \in DOMAIN clients :
                 \E e \in last'.entries : e.username = u /\ e.wins = leaderboard[u]]_vars

\* C18 happens: a username that had won before has connected again, on the
\* second stream, and kept its count.
C18_Witness ==
    /\ last.op = "Connect"
    /\ last.err = ""
    /\ leaderboard[last.user] >= 1
    /\ \A c \in Conns : conn[c].username = last.user

\* C19: a processGuess step returns without grading and without a Send: the
\* guess counter registered for the username is one more, the username's pending
\* entry is the submitted guess, and every other counter and pending entry, the
\* streams, the leaderboard, targetNum and the experiment flag are unchanged.
C19_ProcessGuessOnlyStores ==
    [][last'.op = "processGuess"
        => /\ last'.sends = {}
           /\ last'.err = ""
           /\ last'.user \in DOMAIN clients
           /\ DOMAIN clients' = DOMAIN clients
           /\ clients'[last'.user].guesses = clients[last'.user].guesses + 1
           /\ clients'[last'.user].stream = clients[last'.user].stream
           /\ \A u \in DOMAIN clients \ {last'.user} : clients'[u] = clients[u]
           /\ DOMAIN pendingResponses' = DOMAIN pendingResponses \cup {last'.user}
           /\ pendingResponses'[last'.user] = latest'[last'.user]
           /\ \A u \in DOMAIN pendingResponses \ {last'.user} :
                pendingResponses'[u] = pendingResponses[u]
           /\ leaderboard' = leaderboard
           /\ targetNum' = targetNum
           /\ experiment' = experiment]_vars

\* C19 happens: during an experiment A's second guess has replaced A's first,
\* ungraded, guess while B has a guess pending.
C19_Witness ==
    /\ last.op = "processGuess"
    /\ last.user = "A"
    /\ "A" \in overwritten
    /\ clients["A"].guesses = MaxGuesses
    /\ "B" \in DOMAIN pendingResponses
    /\ experiment

\* C20: once the client, in its main loop, has received "Correct!" or
\* "Experiment ended!", the loop eventually exits: the program ends instead of
\* asking for further guesses.
C20_ClientTerminates ==
    (cprinted \in {"Correct!", EndMsg} /\ cmain \in {"ReadString", "SendGuess"})
        ~> (cmain = "exited")

\* C21: when the peer of A's stream has stopped reading, a call that does not
\* address A (B's processGuess, SendResponse for B, WaitingList, Leaderboard)
\* and waits for s.mu eventually returns.
C21_StalledClientDoesNotBlock ==
    \A o \in {"processGuess(B)", "SendResponse(B)", "WaitingList", "Leaderboard"} :
        (stalled = {StreamOf("A")} /\ opc[o] = "Lock") ~> (opc[o] = "idle")

\* C22: when the handler of a stream c finishes (its cleanup runs) while another
\* stream d is live under the same username, the username stays registered and
\* the pending guess that d's handler stored stays where it is.
C22_DisconnectSparesLiveConnection ==
    [][\A c, d \in Conns :
        (/\ c # d
         /\ conn[c].pc = "ended" /\ conn'[c].pc = "returned"
         /\ conn[d].pc = "live" /\ conn[d].username = conn[c].username)
        => /\ conn[d].username \in DOMAIN clients'
           /\ (/\ conn[d].username \in DOMAIN pendingResponses
               /\ pendingFrom[conn[d].username] = d)
                => /\ conn[d].username \in DOMAIN pendingResponses'
                   /\ pendingResponses'[conn[d].username]
                        = pendingResponses[conn[d].username]]_vars

\* C23: SendResponse never grades, during an experiment, a pending entry that
\* was stored before the StartExperiment that chose the experiment's target.
C23_GradedAgainstOwnExperiment ==
    [][(last'.op = "SendResponse" /\ FoundPending(last'.user) /\ experiment)
        => last'.user \notin stale]_vars

\* C24: a SendResponse that returns an error (unknown username, no pending
\* guess, failed Send) leaves pendingResponses and leaderboard as they were.
C24_FailedSendResponseChangesNothing ==
    [][(last'.op = "SendResponse" /\ last'.err # "")
        => /\ pendingResponses' = pendingResponses
           /\ leaderboard' = leaderboard]_vars

\* C25: in every state, every username with a pending entry (every name
\* WaitingList returns) has a Connect handler that has completed its handshake
\* and has not finished its cleanup.
C25_WaitingHaveHandler ==
    \A u \in WaitingUsernames :
        \E c \in Conns : conn[c].pc \in {"live", "ended"} /\ conn[c].username = u

\* C25 happens: one handler has returned and its cleanup deleted its username's
\* pending guess, while the other username is still waiting with a handler whose
\* stream has ended but whose cleanup has not run.
C25_Witness ==
    \E c, d \in Conns :
        /\ conn[c].pc = "returned"
        /\ conn[c].username \in unanswered
        /\ conn[c].username \notin WaitingUsernames
        /\ conn[d].pc = "ended"
        /\ conn[d].username \in WaitingUsernames

\* C26: while the stream stays open and the program runs, the goroutine of
\* ListenForMessages, once it offers a message on c.start or c.msg while main is
\* in its loop, eventually is back at Recv.
C26_ListenerReturnsToRecv ==
    (clisten \in {"c.start <-", "c.msg <-"} /\ cmain \in {"ReadString", "SendGuess"})
        ~> (clisten = "Recv" \/ cstream = "broken" \/ cmain = "exited")

====
